---- MODULE Spec2Model ----
(***************************************************************************)
(* Movement-correspondence engine of the 3D renderer (graphics3d.js):      *)
(* snapshotLevelState, buildObjectPositionMap, detectMovements (push       *)
(* heuristic, Kuhn matching with deletion pre-exclusion and stay-edge      *)
(* refinement) and the part of redraw3D that consumes the movement list.   *)
(*                                                                         *)
(* JavaScript arrays are modelled as sequences; a JavaScript index i is    *)
(* the sequence index i + 1, and the values stored in matchOld, matchNew,  *)
(* adj and adjStay are JavaScript indices (0-based, -1 for "unmatched").   *)
(***************************************************************************)
EXTENDS Integers, Sequences, FiniteSets, TLC

\* ------------------------------------------------------------------ bounds
\* Words per cell of the occupancy array (the engine's STRIDE_OBJ).
STRIDE_OBJ == 2
\* Largest number of cells of a level of the single-type game.
MaxCells == 5
\* Largest number of cells of a level of the game with several object types.
MaxCellsMulti == 2
\* Width and height of the level on which rigid pushes are replayed.
PushWidth == 3
PushHeight == 3
\* Largest number of cells of a level on which arbitrary changes are replayed.
MatchCells == 6
\* Width and height of the level on which the locks of the refinement are
\* put to the test.
LockWidth == 2
LockHeight == 4
\* Width and height of the level on which the run of detectMovements to its
\* return is followed.
FairWidth == 2
FairHeight == 3

\* ----------------------------------------------------------- small helpers
Range(s) == {s[i] : i \in 1..Len(s)}

At(s, i) == s[i + 1]

RECURSIVE SeqOfSet(_)
\* The elements of a finite set of integers as an ascending sequence.
SeqOfSet(S) ==
    IF S = {} THEN <<>>
    ELSE LET m == CHOOSE x \in S : \A y \in S : x <= y
         IN <<m>> \o SeqOfSet(S \ {m})

RECURSIVE Insert(_, _)
Insert(s, v) ==
    IF s = <<>> THEN <<v>>
    ELSE IF v - Head(s) < 0 THEN <<v>> \o s
    ELSE <<Head(s)>> \o Insert(Tail(s), v)

RECURSIVE SortAsc(_)
\* [...a].sort((a, b) => a - b)
SortAsc(s) == IF s = <<>> THEN <<>> ELSE Insert(SortAsc(Tail(s)), Head(s))

\* array.indexOf-style lookup used for newPosToIdx: the last index holding pos
\* (Map.set overwrites), as a JavaScript index.
PosToIdx(positions, pos) ==
    (CHOOSE i \in 1..Len(positions) :
        /\ positions[i] = pos
        /\ \A j \in 1..Len(positions) : positions[j] = pos => j <= i) - 1

\* ------------------------------------------------- 32-bit word operations
\* 1 << bit on 32-bit integers: bit 31 gives the most negative integer.
Shl1(bit) == IF bit = 31 THEN (0 - 2147483647) - 1 ELSE 2 ^ bit

\* The low 31 bits of a two's-complement 32-bit word.
Low31(word) == IF word < 0 THEN (word + 2147483647) + 1 ELSE word

\* word & (1 << bit): the mask itself when the bit is set, else 0.
AndBit(word, bit) ==
    IF bit = 31
    THEN (IF word < 0 THEN Shl1(31) ELSE 0)
    ELSE (IF (Low31(word) \div (2 ^ bit)) % 2 = 1 THEN Shl1(bit) ELSE 0)

\* A test for a positive number in place of a truthy one.
TruthyPositive(n) == n > 0

\* JavaScript truthiness of a number.
Truthy(n) == n # 0

\* word ^ (1 << bit), the engine setting or clearing one object bit of a cell.
ToggleBit(word, bit) ==
    IF bit = 31
    THEN (IF word < 0 THEN (word + 2147483647) + 1 ELSE (word - 2147483647) - 1)
    ELSE (IF Truthy(AndBit(word, bit)) THEN word - 2 ^ bit ELSE word + 2 ^ bit)

\* ------------------------------------------------------------------ levels
Null == [isNull |-> TRUE]

\* An empty level of the given dimensions (all occupancy words zero).  buffer
\* names the array object that holds the words: "live" is the array of the
\* current level, which the engine writes in place.
EmptyLevel(w, h) ==
    [isNull |-> FALSE, objects |-> [i \in 1..(w * h * STRIDE_OBJ) |-> 0],
     buffer |-> "live", width |-> w, height |-> h]

\* What an in-place write to the live array, which now holds objects, does to
\* a snapshot: it is seen through a reference to that array, not in a copy.
WrittenThrough(snapshot, objects) ==
    IF snapshot # Null /\ snapshot.buffer = "live"
    THEN [snapshot EXCEPT !.objects = objects]
    ELSE snapshot

\* What replacing the current level does to a snapshot: a reference to the
\* old array keeps the old words.
Detached(snapshot) ==
    IF snapshot # Null /\ snapshot.buffer = "live"
    THEN [snapshot EXCEPT !.buffer = "own"]
    ELSE snapshot

\* The games the model plays: the object types their levels use and the
\* largest level (in cells) they load.
Games ==
    { [types |-> {0}, maxCells |-> MaxCells],
      [types |-> {31, 32}, maxCells |-> MaxCellsMulti] }

Dims(g) == {d \in (1..g.maxCells) \X (1..g.maxCells) : d[1] * d[2] <= g.maxCells}

\* ------------------------------------------------- buildObjectPositionMap
\* The test of line 785 for object type 32*s + bit at posIndex, after the
\* word === 0 shortcut of line 782.
HasObject(objects, posIndex, s, bit) ==
    LET word == At(objects, posIndex * STRIDE_OBJ + s)
    IN  word # 0 /\ Truthy(AndBit(word, bit))

RECURSIVE PositionsOf(_, _, _, _, _)
\* The list pushed for one object type by the posIndex loop from posIndex on.
PositionsOf(objects, posIndex, n_tiles, s, bit) ==
    IF posIndex >= n_tiles THEN <<>>
    ELSE (IF HasObject(objects, posIndex, s, bit) THEN <<posIndex>> ELSE <<>>)
         \o PositionsOf(objects, posIndex + 1, n_tiles, s, bit)

RECURSIVE PositionsOfBit(_, _, _, _)
PositionsOfBit(objects, posIndex, n_tiles, bit) ==
    IF posIndex >= n_tiles THEN <<>>
    ELSE (IF \E s \in 0..(STRIDE_OBJ - 1) : HasObject(objects, posIndex, s, bit)
          THEN <<posIndex>> ELSE <<>>)
         \o PositionsOfBit(objects, posIndex + 1, n_tiles, bit)

\* The object index computed as the bit number alone, without s * 32.
buildObjectPositionMapBitOnly(objects, width, height) ==
    LET n_tiles == width * height
        present == {bit \in 0..31 :
                       \E posIndex \in 0..(n_tiles - 1), s \in 0..(STRIDE_OBJ - 1) :
                           HasObject(objects, posIndex, s, bit)}
    IN  [bit \in present |-> PositionsOfBit(objects, 0, n_tiles, bit)]

buildObjectPositionMap(objects, width, height) ==
    LET n_tiles == width * height
        present == {t \in 0..(STRIDE_OBJ * 32 - 1) :
                       \E posIndex \in 0..(n_tiles - 1) :
                           HasObject(objects, posIndex, t \div 32, t % 32)}
    IN  [t \in present |-> PositionsOf(objects, 0, n_tiles, t \div 32, t % 32)]

\* oldMap[objectIndex] || []
MapGet(map, t) == IF t \in DOMAIN map THEN map[t] ELSE <<>>

\* --------------------------------------------- detectMovements: push heuristic
\* The column number rounded up instead of down.
XOfCeil(pos, height) == (pos + height - 1) \div height

\* (pos / height) | 0 and pos % height for a non-negative pos.
XOf(pos, height) == pos \div height

YOf(pos, height) == pos % height

\* y + x * height (lines 891, 897, 949): the position index of cell (x, y).
PosIndex(x, y, height) == y + x * height

Sign(d) == IF d = 0 THEN 0 ELSE IF d > 0 THEN 1 ELSE 0 - 1

\* oldPositions.filter(p => !newPosSet.has(p))
Disappeared(oldPositions, newPositions) ==
    SelectSeq(oldPositions, LAMBDA p : p \notin Range(newPositions))

\* newPositions.filter(p => !oldPosSet.has(p))
Appeared(oldPositions, newPositions) ==
    SelectSeq(newPositions, LAMBDA p : p \notin Range(oldPositions))

\* The delta of the i-th sorted pair, both ends decoded with the current height.
PairDelta(dis, app, i, height) ==
    [dx |-> XOf(app[i], height) - XOf(dis[i], height),
     dy |-> YOf(app[i], height) - YOf(dis[i], height)]

\* consistentPush && pushDx !== null after the loop of lines 850-877: every
\* pair is axis-aligned and non-zero and has the unit direction of the first.
ConsistentPush(dis, app, height) ==
    /\ Len(dis) > 0
    /\ \A i \in 1..Len(dis) :
          LET d == PairDelta(dis, app, i, height)
              d1 == PairDelta(dis, app, 1, height)
          IN  /\ (d.dx = 0) # (d.dy = 0)
              /\ Sign(d.dx) = Sign(d1.dx)
              /\ Sign(d.dy) = Sign(d1.dy)

\* The push heuristic taken for a single displaced object only.
PushAppliesSinglePair(oldPositions, newPositions, height) ==
    LET dis == Disappeared(oldPositions, newPositions)
        app == Appeared(oldPositions, newPositions)
    IN  /\ Len(dis) = 1
        /\ Len(app) = 1
        /\ ConsistentPush(dis, app, height)

\* The guard of lines 839 and 879: the push heuristic handles this type.
PushApplies(oldPositions, newPositions, height) ==
    LET dis == Disappeared(oldPositions, newPositions)
        app == Appeared(oldPositions, newPositions)
    IN  /\ Len(dis) > 0
        /\ Len(dis) = Len(app)
        /\ ConsistentPush(SortAsc(dis), SortAsc(app), height)

Movement(objectIndex, from, to) ==
    [objectIndex |-> objectIndex, fromPosIndex |-> from, toPosIndex |-> to]

RECURSIVE PushWalk(_, _, _, _, _, _, _, _, _, _)
\* The while loop of lines 893-909 from (x, y) to (endX, endY).
PushWalk(objectIndex, x, y, endX, endY, pushDx, pushDy, height, oldPosSet, newPosSet) ==
    IF x = endX /\ y = endY THEN <<>>
    ELSE LET oldPos == PosIndex(x, y, height)
             newPos == PosIndex(x + pushDx, y + pushDy, height)
         IN  (IF oldPos \in oldPosSet /\ newPos \in newPosSet
              THEN <<Movement(objectIndex, oldPos, newPos)>>
              ELSE <<>>)
             \o PushWalk(objectIndex, x + pushDx, y + pushDy, endX, endY,
                         pushDx, pushDy, height, oldPosSet, newPosSet)

RECURSIVE PushPairs(_, _, _, _, _, _, _)
\* The loop of lines 882-910 from pair i on.
PushPairs(objectIndex, dis, app, i, height, oldPosSet, newPosSet) ==
    IF i > Len(dis) THEN <<>>
    ELSE LET d1 == PairDelta(dis, app, 1, height)
         IN  PushWalk(objectIndex, XOf(dis[i], height), YOf(dis[i], height),
                      XOf(app[i], height), YOf(app[i], height),
                      Sign(d1.dx), Sign(d1.dy), height, oldPosSet, newPosSet)
             \o PushPairs(objectIndex, dis, app, i + 1, height, oldPosSet, newPosSet)

\* Each disappeared position paired directly with its appeared position.
PushMovementsDirect(objectIndex, oldPositions, newPositions, height) ==
    LET dis == SortAsc(Disappeared(oldPositions, newPositions))
        app == SortAsc(Appeared(oldPositions, newPositions))
    IN  [i \in 1..Len(dis) |-> Movement(objectIndex, dis[i], app[i])]

\* The records the push heuristic appends for one object type.
PushMovements(objectIndex, oldPositions, newPositions, height) ==
    PushPairs(objectIndex,
              SortAsc(Disappeared(oldPositions, newPositions)),
              SortAsc(Appeared(oldPositions, newPositions)),
              1, height, Range(oldPositions), Range(newPositions))

\* ------------------------------------------ detectMovements: matching graph
\* newPosToIdx.get(pos): positions are distinct, so the index of pos.
NewPosToIdx(newPositions, pos) == PosToIdx(newPositions, pos)

\* No stay edge is ever recorded.
AdjStayNone(oldPos, newPositions) == <<>>

\* adjStay[oldIdx] (lines 929-935): the index of the identical new position.
AdjStayOf(oldPos, newPositions) ==
    IF oldPos \in Range(newPositions)
    THEN <<NewPosToIdx(newPositions, oldPos)>>
    ELSE <<>>

\* Up and down in place of left and right.
OffsetsVertical == << <<0, 0 - 1>>, <<0, 1>>, <<0, 0 - 1>>, <<0, 1>> >>

\* left, right, up, down (lines 938-943)
Offsets == << <<0 - 1, 0>>, <<1, 0>>, <<0, 0 - 1>>, <<0, 1>> >>

\* The neighbour taken without the test that it is inside the grid.
NeighbourOfUnchecked(oldPos, off, newPositions, prevHeight, width, height) ==
    LET newX == XOf(oldPos, prevHeight) + off[1]
        newY == YOf(oldPos, prevHeight) + off[2]
        newPos == PosIndex(newX, newY, height)
    IN  IF newPos \in Range(newPositions)
        THEN <<NewPosToIdx(newPositions, newPos)>>
        ELSE <<>>

\* The neighbour pushed for one offset (lines 945-954), or none.
NeighbourOf(oldPos, off, newPositions, prevHeight, width, height) ==
    LET newX == XOf(oldPos, prevHeight) + off[1]
        newY == YOf(oldPos, prevHeight) + off[2]
        newPos == PosIndex(newX, newY, height)
    IN  IF newX >= 0 /\ newX < width /\ newY >= 0 /\ newY < height
           /\ newPos \in Range(newPositions)
        THEN <<NewPosToIdx(newPositions, newPos)>>
        ELSE <<>>

\* adj[oldIdx] (lines 923-956): the stay index first, then the four neighbours.
AdjOf(oldPos, newPositions, prevHeight, width, height) ==
    AdjStayOf(oldPos, newPositions)
    \o NeighbourOf(oldPos, Offsets[1], newPositions, prevHeight, width, height)
    \o NeighbourOf(oldPos, Offsets[2], newPositions, prevHeight, width, height)
    \o NeighbourOf(oldPos, Offsets[3], newPositions, prevHeight, width, height)
    \o NeighbourOf(oldPos, Offsets[4], newPositions, prevHeight, width, height)

BuildAdjStay(oldPositions, newPositions) ==
    [i \in 1..Len(oldPositions) |-> AdjStayOf(oldPositions[i], newPositions)]

BuildAdj(oldPositions, newPositions, prevHeight, width, height) ==
    [i \in 1..Len(oldPositions) |->
        AdjOf(oldPositions[i], newPositions, prevHeight, width, height)]

RECURSIVE tryAugmentFrom(_, _, _, _)
\* tryAugment(oldIdx, visited) from the k-th entry of adj[oldIdx] on; st carries
\* matchOld, matchNew and visited, and st.ok is the value returned.
tryAugmentFrom(adj, oldIdx, k, st) ==
    IF k > Len(At(adj, oldIdx)) THEN [st EXCEPT !.ok = FALSE]
    ELSE LET newIdx == At(adj, oldIdx)[k]
         IN  IF At(st.visited, newIdx) THEN tryAugmentFrom(adj, oldIdx, k + 1, st)
             ELSE LET st1 == [st EXCEPT !.visited[newIdx + 1] = TRUE]
                      currentMatch == At(st1.matchNew, newIdx)
                  IN  IF currentMatch = 0 - 1
                      THEN [st1 EXCEPT !.matchNew[newIdx + 1] = oldIdx,
                                       !.matchOld[oldIdx + 1] = newIdx,
                                       !.ok = TRUE]
                      ELSE LET sub == tryAugmentFrom(adj, currentMatch, 1, st1)
                           IN  IF sub.ok
                               THEN [sub EXCEPT !.matchNew[newIdx + 1] = oldIdx,
                                                !.matchOld[oldIdx + 1] = newIdx]
                               ELSE tryAugmentFrom(adj, oldIdx, k + 1, sub)

\* The search that takes the first free neighbour and never re-routes the
\* old node that holds a taken one.
tryAugmentGreedy(adj, oldIdx, matchOld, matchNew, visited) ==
    LET free == {k \in 1..Len(At(adj, oldIdx)) :
                    /\ ~At(visited, At(adj, oldIdx)[k])
                    /\ At(matchNew, At(adj, oldIdx)[k]) = 0 - 1}
        first == CHOOSE k \in free : \A n \in free : k <= n
        newIdx == At(adj, oldIdx)[first]
    IN  IF free = {}
        THEN [ok |-> FALSE, matchOld |-> matchOld, matchNew |-> matchNew,
              visited |-> visited]
        ELSE [ok |-> TRUE,
              matchOld |-> [matchOld EXCEPT ![oldIdx + 1] = newIdx],
              matchNew |-> [matchNew EXCEPT ![newIdx + 1] = oldIdx],
              visited |-> [visited EXCEPT ![newIdx + 1] = TRUE]]

tryAugment(adj, oldIdx, matchOld, matchNew, visited) ==
    tryAugmentFrom(adj, oldIdx, 1,
        [ok |-> FALSE, matchOld |-> matchOld, matchNew |-> matchNew, visited |-> visited])

\* The first toDelete old positions excluded, with a stay edge or without.
ExcludeFromAny(adjStay, oldIdx, toDelete, excluded) ==
    [i \in 1..Len(excluded) |-> i <= toDelete]

RECURSIVE ExcludeFrom(_, _, _, _)
\* The loop of lines 996-1001 from oldIdx on, with toDelete still to exclude.
ExcludeFrom(adjStay, oldIdx, toDelete, excluded) ==
    IF ~(oldIdx < Len(adjStay) /\ toDelete > 0) THEN excluded
    ELSE IF Len(At(adjStay, oldIdx)) = 0
         THEN ExcludeFrom(adjStay, oldIdx + 1, toDelete - 1,
                          [excluded EXCEPT ![oldIdx + 1] = TRUE])
         ELSE ExcludeFrom(adjStay, oldIdx + 1, toDelete, excluded)

\* No old position is pre-excluded.
Phase0None(adjStay, nOld, nNew) == [i \in 1..nOld |-> FALSE]

\* Phase 0 (lines 992-1002).
Phase0(adjStay, nOld, nNew) ==
    LET deletions == nOld - nNew
        none == [i \in 1..nOld |-> FALSE]
    IN  IF deletions > 0 THEN ExcludeFrom(adjStay, 0, deletions, none) ELSE none

\* countStayEdges (lines 1016-1022).
countStayEdges(adjStay, matchOld) ==
    Cardinality({i \in 1..Len(matchOld) :
                    Len(adjStay[i]) > 0 /\ matchOld[i] = adjStay[i][1]})

\* ------------------------------------ detectMovements: refinement, extraction
\* The new position of l's old match left marked as matched.
FreeNewKept(matchNew, r_prime) == matchNew

\* if (r_prime !== -1) matchNew[r_prime] = -1 (lines 1045 and 1062).
FreeNew(matchNew, r_prime) ==
    IF r_prime # 0 - 1 THEN [matchNew EXCEPT ![r_prime + 1] = 0 - 1] ELSE matchNew

\* No swap is ever kept.
KeepSwapNever(stayCountAfter, stayCountBefore) == FALSE

\* A swap kept when the stay count did not drop.
KeepSwapNoLoss(stayCountAfter, stayCountBefore) == stayCountAfter >= stayCountBefore

\* stayCountAfter > stayCountBefore (line 1080).
KeepSwap(stayCountAfter, stayCountBefore) == stayCountAfter > stayCountBefore

\* The array left as the search and the swap made it.
RestoreNone(saved, current) == current

\* for (i...) current[i] = saved[i] (lines 1085-1086 and 1090-1091): the array
\* gets back, entry by entry, the values of its slice() of lines 1058-1059.
Restore(saved, current) == [i \in 1..Len(current) |-> saved[i]]

\* The set of locks left as it was.
LockNone(lockedStayEdges, r_stay) == lockedStayEdges

\* lockedStayEdges.add(r_stay) (lines 1049 and 1081).
Lock(lockedStayEdges, r_stay) == lockedStayEdges \cup {r_stay}

\* No new position is closed to the search.
VisitedNone(nNew, lockedStayEdges, r_stay) == [j \in 1..nNew |-> FALSE]

\* visited of lines 1070-1075: the locked stay edges and the claimed r_stay.
VisitedLocked(nNew, lockedStayEdges, r_stay) ==
    [j \in 1..nNew |-> (j - 1) \in lockedStayEdges \/ (j - 1) = r_stay]

\* One iteration of the for loop of lines 1032-1093 for old node l.  st carries
\* matchOld, matchNew, lockedStayEdges and improved.
Phase2Body(adj, adjStay, l, st) ==
    IF Len(At(adjStay, l)) = 0 THEN st
    ELSE LET r_stay == At(adjStay, l)[1]
         IN  IF At(st.matchOld, l) = r_stay THEN st
             ELSE LET l_prime == At(st.matchNew, r_stay)
                      r_prime == At(st.matchOld, l)
                      stayCountBefore == countStayEdges(adjStay, st.matchOld)
                      \* lines 1045-1047 and 1062-1064
                      freedNew == FreeNew(st.matchNew, r_prime)
                      claimedOld == [st.matchOld EXCEPT ![l + 1] = r_stay]
                      claimedNew == [freedNew EXCEPT ![r_stay + 1] = l]
                  IN  IF l_prime = 0 - 1
                      THEN [st EXCEPT !.matchOld = claimedOld,
                                      !.matchNew = claimedNew,
                                      !.lockedStayEdges = Lock(@, r_stay),
                                      !.improved = TRUE]
                      ELSE LET savedMatchNew == st.matchNew
                               savedMatchOld == st.matchOld
                               swappedOld == [claimedOld EXCEPT ![l_prime + 1] = 0 - 1]
                               visited == VisitedLocked(Len(st.matchNew),
                                                        st.lockedStayEdges, r_stay)
                               res == tryAugment(adj, l_prime, swappedOld, claimedNew, visited)
                           IN  IF res.ok /\ KeepSwap(countStayEdges(adjStay, res.matchOld),
                                                     stayCountBefore)
                               THEN [st EXCEPT !.matchOld = res.matchOld,
                                               !.matchNew = res.matchNew,
                                               !.lockedStayEdges = Lock(@, r_stay),
                                               !.improved = TRUE]
                               ELSE [st EXCEPT
                                       !.matchNew = Restore(savedMatchNew, res.matchNew),
                                       !.matchOld = Restore(savedMatchOld, res.matchOld)]

\* Every matched pair reported, moved or not.
ExtractAll(objectIndex, oldPositions, newPositions, matchNew, newIdx) ==
    LET matched == SelectSeq([j \in 1..Len(newPositions) |-> j],
                             LAMBDA j : j > newIdx /\ matchNew[j] # 0 - 1)
    IN  [k \in 1..Len(matched) |->
            Movement(objectIndex, At(oldPositions, matchNew[matched[k]]),
                     newPositions[matched[k]])]

RECURSIVE ExtractFrom(_, _, _, _, _)
\* The loop of lines 1097-1111 from newIdx on.
ExtractFrom(objectIndex, oldPositions, newPositions, matchNew, newIdx) ==
    IF newIdx >= Len(newPositions) THEN <<>>
    ELSE LET oldIdx == At(matchNew, newIdx)
         IN  (IF oldIdx # 0 - 1 /\ At(oldPositions, oldIdx) # At(newPositions, newIdx)
              THEN <<Movement(objectIndex, At(oldPositions, oldIdx),
                              At(newPositions, newIdx))>>
              ELSE <<>>)
             \o ExtractFrom(objectIndex, oldPositions, newPositions, matchNew, newIdx + 1)

\* ------------------------------------------------ redraw3D: movement map, sprites
\* The key built from the cell alone, without the object index.
MovementKeyPosOnly(toPosIndex, objectIndex) == <<toPosIndex>>

\* `${m.toPosIndex}_${m.objectIndex}` (line 1401) and `${posIndex}_${k}` (line 1426).
MovementKey(toPosIndex, objectIndex) == <<toPosIndex, objectIndex>>

\* movementMap after the loop of lines 1398-1403: one entry per key, written
\* by the last record with that key, its from cell decoded with the height of
\* the snapshot.
BuildMovementMap(list, snapshot) ==
    LET KeyOf(i) == MovementKey(list[i].toPosIndex, list[i].objectIndex)
        LastWith(key) == CHOOSE i \in 1..Len(list) :
                            /\ KeyOf(i) = key
                            /\ \A j \in 1..Len(list) : KeyOf(j) = key => j <= i
    IN  [key \in {KeyOf(i) : i \in 1..Len(list)} |->
            [fromX |-> XOf(list[LastWith(key)].fromPosIndex, snapshot.height),
             fromY |-> YOf(list[LastWith(key)].fromPosIndex, snapshot.height)]]

\* createSprite3D (lines 1238-1256) in grid units: the instance is put at its
\* start cell, the cell of animFrom if there is one and else its final cell,
\* and is tracked for animation exactly if there is an animFrom.
createSprite3D(spriteIndex, gridX, gridY, animFrom) ==
    IF animFrom # Null
    THEN [spriteIndex |-> spriteIndex, endX |-> gridX, endZ |-> gridY,
          startX |-> animFrom.gridX, startZ |-> animFrom.gridY, animated |-> TRUE]
    ELSE [spriteIndex |-> spriteIndex, endX |-> gridX, endZ |-> gridY,
          startX |-> gridX, startZ |-> gridY, animated |-> FALSE]

RECURSIVE DrawCell(_, _, _, _, _)
\* The loop over k of lines 1423-1450 for the cell (i, j), over the object
\* numbers ks still to visit; the visible area is the whole level (mini = minj = 0).
DrawCell(level, movementMap, ks, i, j) ==
    IF ks = <<>> THEN <<>>
    ELSE LET k == Head(ks)
             posIndex == PosIndex(i, j, level.height)
             movementKey == MovementKey(posIndex, k)
             animFrom == IF movementKey \in DOMAIN movementMap
                         THEN [gridX |-> movementMap[movementKey].fromX - 0,
                               gridY |-> movementMap[movementKey].fromY - 0]
                         ELSE Null
         IN  (IF HasObject(level.objects, posIndex, k \div 32, k % 32)
              THEN <<createSprite3D(k, i - 0, j - 0, animFrom)>>
              ELSE <<>>)
             \o DrawCell(level, movementMap, Tail(ks), i, j)

RECURSIVE DrawCells(_, _, _, _, _)
\* The loops over i and j of lines 1416-1452 from cell (i, j) on.
DrawCells(level, movementMap, ks, i, j) ==
    IF i >= level.width THEN <<>>
    ELSE IF j >= level.height THEN DrawCells(level, movementMap, ks, i + 1, 0)
    ELSE DrawCell(level, movementMap, ks, i, j)
         \o DrawCells(level, movementMap, ks, i, j + 1)

\* ------------------------------------------------------------------- state
VARIABLES
    game,                \* the compiled game: object types in use, level sizes
    curLevel,            \* the engine's live level, or Null
    previousLevelState,  \* the snapshot, or Null
    pc,                  \* where the renderer is
    caller,              \* who called detectMovements: "redraw3D" or "direct"
    movements,           \* detectMovements: the list being built / returned
    oldMap, newMap,      \* detectMovements: the two position maps
    typeQueue,           \* keys of newMap the for-in loop has still to visit
    objectIndex, oldPositions, newPositions,  \* locals of the current iteration
    adj, adjStay,        \* adjacency lists of the current object type
    matchOld, matchNew,  \* the matching
    excluded,            \* Phase 0 marks
    lockedStayEdges,     \* Phase 2 locks
    improved,            \* Phase 2 loop flag
    idx,                 \* oldIdx of Phase 1 / l of Phase 2
    sprites,             \* redraw3D: the createSprite3D calls made so far
    animatedMeshes,      \* the instances tracked for animation
    isAnimating3D,       \* whether an animation is in progress
    pendingFrames        \* animate3D callbacks waiting in requestAnimationFrame

levelVars == <<game, curLevel, previousLevelState>>

typeVars == <<objectIndex, oldPositions, newPositions, adj, adjStay,
              matchOld, matchNew, excluded, lockedStayEdges, improved, idx>>

detectVars == <<movements, oldMap, newMap, typeQueue>>

animVars == <<isAnimating3D, pendingFrames>>

drawVars == <<sprites, animatedMeshes, isAnimating3D, pendingFrames>>

vars == <<game, curLevel, previousLevelState, pc, caller, movements, oldMap, newMap,
          typeQueue, objectIndex, oldPositions, newPositions, adj, adjStay,
          matchOld, matchNew, excluded, lockedStayEdges, improved, idx,
          sprites, animatedMeshes, isAnimating3D, pendingFrames>>

\* The locals of detectMovements before a call / after the caller dropped them.
NoLocals ==
    /\ movements = <<>>
    /\ oldMap = <<>>
    /\ newMap = <<>>
    /\ typeQueue = <<>>
    /\ objectIndex = 0 - 1
    /\ oldPositions = <<>>
    /\ newPositions = <<>>
    /\ adj = <<>>
    /\ adjStay = <<>>
    /\ matchOld = <<>>
    /\ matchNew = <<>>
    /\ excluded = <<>>
    /\ lockedStayEdges = {}
    /\ improved = FALSE
    /\ idx = 0

\* No animation is in progress and no frame is requested (lines 39, 41).
NoAnimation ==
    /\ isAnimating3D = FALSE
    /\ pendingFrames = 0

Init ==
    /\ game \in Games
    /\ curLevel = Null
    /\ previousLevelState = Null
    /\ pc = "idle"
    /\ caller = "none"
    /\ NoLocals
    /\ sprites = <<>>
    /\ animatedMeshes = <<>>
    /\ NoAnimation

\* ------------------------------------------------------- the engine's side
\* The engine loads a level of the game (curLevel is replaced).
LoadLevel ==
    /\ pc = "idle"
    /\ \E d \in Dims(game) : curLevel' = EmptyLevel(d[1], d[2])
    /\ previousLevelState' = Detached(previousLevelState)
    /\ UNCHANGED <<game, pc, caller, detectVars, typeVars, drawVars>>

\* The engine leaves the level (no current level).
UnloadLevel ==
    /\ pc = "idle"
    /\ curLevel # Null
    /\ curLevel' = Null
    /\ previousLevelState' = Detached(previousLevelState)
    /\ UNCHANGED <<game, pc, caller, detectVars, typeVars, drawVars>>

\* The simulation puts an object of type t into cell pos or takes it out.
SetCell ==
    /\ pc = "idle"
    /\ curLevel # Null
    /\ \E pos \in 0..(curLevel.width * curLevel.height - 1), t \in game.types :
          LET i == pos * STRIDE_OBJ + (t \div 32) + 1
          IN  curLevel' = [curLevel EXCEPT
                              !.objects[i] = ToggleBit(curLevel.objects[i], t % 32)]
    /\ previousLevelState' = WrittenThrough(previousLevelState, curLevel'.objects)
    /\ UNCHANGED <<game, pc, caller, detectVars, typeVars, drawVars>>

\* --------------------------------------------------------- the renderer
\* new Int32Array(curLevel.objects): an element-wise copy.
CopyObjects(objects) == [i \in 1..Len(objects) |-> objects[i]]

\* The snapshot keeps the live array itself.
SameArray == "live"

\* new Int32Array(...) of line 764 is an array object of the snapshot's own.
NewInt32Array == "own"

snapshotLevelState ==
    /\ pc = "idle"
    /\ previousLevelState' =
          IF curLevel = Null THEN previousLevelState
          ELSE [isNull |-> FALSE, objects |-> CopyObjects(curLevel.objects),
                buffer |-> NewInt32Array,
                width |-> curLevel.width, height |-> curLevel.height]
    /\ UNCHANGED <<game, curLevel, pc, caller, detectVars, typeVars, drawVars>>

\* The snapshot overwritten with the current level.
TakesSnapshot == previousLevelState' = curLevel /\ curLevel' = curLevel

\* detectMovements assigns neither previousLevelState nor curLevel nor an
\* element of their arrays: it only reads them (lines 806-815, 836-837, 924).
KeepsSnapshots == UNCHANGED <<curLevel, previousLevelState>>

\* Where the for-in loop of line 822 goes with these keys left: to its next
\* iteration, or past its end to the return of line 1114.
LoopHead(queue) == IF queue = <<>> THEN "returned" ELSE "types"

\* The guard with && in place of ||.
DetectGuardBoth(prev, cur) == prev = Null /\ cur = Null

\* The guard of line 804: detectMovements returns [] at once.
DetectGuard(prev, cur) == prev = Null \/ cur = Null

\* The entry of detectMovements (lines 804-817), reached from caller c.
DetectEntry(c) ==
    /\ caller' = c
    /\ movements' = <<>>
    /\ IF DetectGuard(previousLevelState, curLevel)
       THEN /\ pc' = "returned"
            /\ UNCHANGED <<oldMap, newMap, typeQueue>>
       ELSE IF previousLevelState = Null \/ curLevel = Null
       THEN \* a property of null is read (lines 807, 812): TypeError
            /\ pc' = "threw"
            /\ UNCHANGED <<oldMap, newMap, typeQueue>>
       ELSE /\ oldMap' = buildObjectPositionMap(previousLevelState.objects,
                              previousLevelState.width, previousLevelState.height)
            /\ newMap' = buildObjectPositionMap(curLevel.objects,
                              curLevel.width, curLevel.height)
            /\ typeQueue' = SeqOfSet(DOMAIN newMap')
            /\ pc' = LoopHead(typeQueue')
    /\ KeepsSnapshots
    /\ UNCHANGED <<game, typeVars>>

\* The snapshot discarded on the way out.
EarlyClearedSnapshot == Null

\* The early returns assign nothing to previousLevelState (lines 1270-1302).
EarlyReturnSnapshot == previousLevelState

\* redraw3D returns before it computes the correspondence: false while 3D
\* rendering is off or not set up (line 1271) and in text mode (line 1281);
\* true, after beginRedraw3D (line 1292) and a render of the empty scene, when
\* there is no current level (lines 1299-1301).
redraw3DEarly ==
    /\ pc = "idle"
    /\ \E rendererReady, textMode \in BOOLEAN :
          IF ~rendererReady \/ textMode
          THEN UNCHANGED animatedMeshes
          ELSE /\ curLevel = Null
               /\ animatedMeshes' = <<>>
    /\ previousLevelState' = EarlyReturnSnapshot
    /\ pc' = "early"
    /\ UNCHANGED <<game, curLevel, caller, detectVars, typeVars, sprites, animVars>>

\* The caller of redraw3D takes the value returned early.
redraw3DReturn ==
    /\ pc = "early"
    /\ pc' = "idle"
    /\ UNCHANGED <<levelVars, caller, detectVars, typeVars, drawVars>>

\* redraw3D passes its early returns, resets the instance tracking
\* (beginRedraw3D, line 720), reaches line 1394 and calls detectMovements.
redraw3D ==
    /\ pc = "idle"
    /\ curLevel # Null
    /\ sprites' = <<>>
    /\ animatedMeshes' = <<>>
    /\ UNCHANGED animVars
    /\ DetectEntry("redraw3D")

\* detectMovements called on its own while there is no current level, where
\* redraw3D does not reach it (with a current level the function runs as it
\* does for redraw3D).
detectMovements ==
    /\ pc = "idle"
    /\ curLevel = Null
    /\ DetectEntry("direct")
    /\ UNCHANGED drawVars

\* One iteration of the for-in loop of line 822 up to Phase 0: the object type
\* is skipped (line 826), handled by the push heuristic (lines 839-912), or
\* handed to the matcher (lines 916-1002).
NextType ==
    /\ pc = "types"
    /\ LET t == Head(typeQueue)
           old == MapGet(oldMap, t)
           new == newMap[t]
       IN  /\ objectIndex' = t
           /\ oldPositions' = old
           /\ newPositions' = new
           /\ IF Len(old) = 0
              THEN /\ typeQueue' = Tail(typeQueue)
                   /\ pc' = LoopHead(typeQueue')
                   /\ adj' = <<>> /\ adjStay' = <<>> /\ excluded' = <<>>
                   /\ matchOld' = <<>> /\ matchNew' = <<>>
                   /\ UNCHANGED movements
              ELSE IF PushApplies(old, new, curLevel.height)
              THEN /\ movements' = movements
                                     \o PushMovements(t, old, new, curLevel.height)
                   /\ typeQueue' = Tail(typeQueue)
                   /\ pc' = LoopHead(typeQueue')
                   /\ adj' = <<>> /\ adjStay' = <<>> /\ excluded' = <<>>
                   /\ matchOld' = <<>> /\ matchNew' = <<>>
              ELSE /\ adjStay' = BuildAdjStay(old, new)
                   /\ adj' = BuildAdj(old, new, previousLevelState.height,
                                      curLevel.width, curLevel.height)
                   /\ matchNew' = [j \in 1..Len(new) |-> 0 - 1]
                   /\ matchOld' = [i \in 1..Len(old) |-> 0 - 1]
                   /\ excluded' = Phase0(adjStay', Len(old), Len(new))
                   /\ pc' = "phase1"
                   /\ UNCHANGED <<movements, typeQueue>>
           /\ idx' = 0
           /\ lockedStayEdges' = {}
           /\ improved' = FALSE
    /\ KeepsSnapshots
    /\ UNCHANGED <<drawVars, game, caller, oldMap, newMap>>

\* One iteration of the Phase 1 loop (lines 1005-1009); after the last one the
\* refinement starts with improved = true (line 1028).
Phase1Step ==
    /\ pc = "phase1"
    /\ IF At(excluded, idx)
       THEN UNCHANGED <<matchOld, matchNew>>
       ELSE LET res == tryAugment(adj, idx, matchOld, matchNew,
                                  [j \in 1..Len(newPositions) |-> FALSE])
            IN  /\ matchOld' = res.matchOld
                /\ matchNew' = res.matchNew
    /\ idx' = idx + 1
    /\ IF idx + 1 < Len(oldPositions)
       THEN UNCHANGED <<pc, improved>>
       ELSE pc' = "phase2" /\ improved' = TRUE
    /\ KeepsSnapshots
    /\ UNCHANGED <<drawVars, game, caller, detectVars, objectIndex, oldPositions,
                   newPositions, adj, adjStay, excluded, lockedStayEdges>>

\* improved left set when a scan starts.
ImprovedKept == TRUE

\* improved = false at the start of a scan (line 1030).
ImprovedReset == FALSE

\* The while test of line 1029 and the start of a scan (lines 1030, 1032).
Phase2While ==
    /\ pc = "phase2"
    /\ IF improved
       THEN improved' = ImprovedReset /\ idx' = 0 /\ pc' = "body"
       ELSE pc' = "extract" /\ UNCHANGED <<improved, idx>>
    /\ KeepsSnapshots
    /\ UNCHANGED <<drawVars, game, caller, detectVars, objectIndex, oldPositions,
                   newPositions, adj, adjStay, matchOld, matchNew, excluded,
                   lockedStayEdges>>

\* One iteration of the for loop of the refinement scan.
Phase2Step ==
    /\ pc = "body"
    /\ LET res == Phase2Body(adj, adjStay, idx,
                      [matchOld |-> matchOld, matchNew |-> matchNew,
                       lockedStayEdges |-> lockedStayEdges, improved |-> improved])
       IN  /\ matchOld' = res.matchOld
           /\ matchNew' = res.matchNew
           /\ lockedStayEdges' = res.lockedStayEdges
           /\ improved' = res.improved
    /\ idx' = idx + 1
    /\ pc' = IF idx + 1 < Len(oldPositions) THEN "body" ELSE "phase2"
    /\ KeepsSnapshots
    /\ UNCHANGED <<drawVars, game, caller, detectVars, objectIndex, oldPositions,
                   newPositions, adj, adjStay, excluded>>

\* Lines 1097-1111, then the next object type or the return.
Extract ==
    /\ pc = "extract"
    /\ movements' = movements
                      \o ExtractFrom(objectIndex, oldPositions, newPositions, matchNew, 0)
    /\ typeQueue' = Tail(typeQueue)
    /\ pc' = LoopHead(typeQueue')
    /\ KeepsSnapshots
    /\ UNCHANGED <<drawVars, game, caller, oldMap, newMap, typeVars>>

DropLocals ==
    /\ movements' = <<>>
    /\ oldMap' = <<>>
    /\ newMap' = <<>>
    /\ typeQueue' = <<>>
    /\ objectIndex' = 0 - 1
    /\ oldPositions' = <<>>
    /\ newPositions' = <<>>
    /\ adj' = <<>>
    /\ adjStay' = <<>>
    /\ matchOld' = <<>>
    /\ matchNew' = <<>>
    /\ excluded' = <<>>
    /\ lockedStayEdges' = {}
    /\ improved' = FALSE
    /\ idx' = 0

\* redraw3D after detectMovements returned (lines 1396-1453): the movement
\* map is built from the list and every object of every cell is drawn.
\* The height read once, ahead of the loop.
ReadsHeightHoisted(movs) == TRUE

\* previousLevelState.height is read in the body of the for-of loop over the
\* movement list (lines 1398-1400): once per record, never for an empty list.
ReadsHeight(movs) == movs # <<>>

redraw3DDraw ==
    /\ pc = "returned"
    /\ caller = "redraw3D"
    /\ IF ReadsHeight(movements) /\ previousLevelState = Null
       THEN \* previousLevelState.height is read of null (line 1399): TypeError
            /\ pc' = "threw"
            /\ UNCHANGED drawVars
       ELSE /\ sprites' = DrawCells(curLevel,
                               BuildMovementMap(movements, previousLevelState),
                               SeqOfSet(game.types), 0, 0)
            /\ animatedMeshes' = SelectSeq(sprites', LAMBDA sp : sp.animated)
            /\ UNCHANGED animVars
            /\ pc' = "drawn"
    /\ UNCHANGED <<levelVars, caller, detectVars, typeVars>>

\* The snapshot left as it is.
KeptSnapshot == previousLevelState

\* previousLevelState = null (line 1456).
ClearedSnapshot == Null

\* The end of redraw3D (lines 1455-1471): the snapshot is cleared and, if an
\* instance is tracked for animation, the animation is started.
\* requestAnimationFrame(animate3D) of line 1148: one more callback waits.
Requested(pending) == pending + 1

redraw3DFinish ==
    /\ pc = "drawn"
    /\ previousLevelState' = ClearedSnapshot
    /\ IF Len(animatedMeshes) > 0
       THEN \* lines 1463-1465: animate3D() runs at elapsed time 0, so t < 1
            /\ isAnimating3D' = TRUE
            /\ pendingFrames' = Requested(pendingFrames)
            /\ pc' = "animating"
       ELSE /\ UNCHANGED animVars
            /\ pc' = "idle"
    /\ caller' = "none"
    /\ DropLocals
    /\ sprites' = <<>>
    /\ UNCHANGED <<game, curLevel, animatedMeshes>>

\* One animate3D callback runs (lines 1120-1153), between two other tasks of
\* the page. It stops at once if no animation is in progress (line 1121);
\* otherwise it moves the instances and, depending on the time that has
\* passed, requests the next frame (t < 1) or ends the animation:
\* isAnimating3D = false, animatedMeshes = [].
animate3D ==
    /\ pc \in {"animating", "idle"}
    /\ pendingFrames > 0
    /\ IF ~isAnimating3D
       THEN /\ isAnimating3D' = FALSE
            /\ pendingFrames' = pendingFrames - 1
            /\ UNCHANGED animatedMeshes
       ELSE \E lastFrame \in BOOLEAN :
               IF lastFrame
               THEN /\ isAnimating3D' = FALSE
                    /\ animatedMeshes' = <<>>
                    /\ pendingFrames' = pendingFrames - 1
               ELSE /\ pendingFrames' = Requested(pendingFrames - 1)
                    /\ UNCHANGED <<isAnimating3D, animatedMeshes>>
    /\ pc' = IF pendingFrames' = 0 THEN "idle" ELSE pc
    /\ UNCHANGED <<levelVars, caller, detectVars, typeVars, sprites>>

\* A direct caller takes the list.
detectMovementsReturn ==
    /\ pc = "returned"
    /\ caller = "direct"
    /\ pc' = "idle"
    /\ caller' = "none"
    /\ DropLocals
    /\ UNCHANGED <<levelVars, drawVars>>

Next ==
    \/ LoadLevel
    \/ UnloadLevel
    \/ SetCell
    \/ snapshotLevelState
    \/ redraw3DEarly
    \/ redraw3DReturn
    \/ redraw3D
    \/ detectMovements
    \/ NextType
    \/ Phase1Step
    \/ Phase2While
    \/ Phase2Step
    \/ Extract
    \/ redraw3DDraw
    \/ redraw3DFinish
    \/ animate3D
    \/ detectMovementsReturn

Spec == Init /\ [][Next]_vars

\* ------------------------------------------------- replay of rigid pushes
\* A level of the given dimensions with objects of type 0 in the given cells.
LevelWith(cells, w, h) ==
    [isNull |-> FALSE,
     objects |-> [i \in 1..(w * h * STRIDE_OBJ) |->
                    IF (i - 1) % STRIDE_OBJ = 0 /\ ((i - 1) \div STRIDE_OBJ) \in cells
                    THEN 1 ELSE 0],
     buffer |-> "live", width |-> w, height |-> h]

\* The cell next to pos in direction d in a grid of the given dimensions, or
\* -1 if that is outside the grid.
PushedTo(pos, d, w, h) ==
    LET x == XOf(pos, h) + d[1]
        y == YOf(pos, h) + d[2]
    IN  IF x >= 0 /\ x < w /\ y >= 0 /\ y < h THEN PosIndex(x, y, h) ELSE 0 - 1

\* The snapshot was taken of a PushWidth x PushHeight level, and then the
\* engine pushed a set M of its objects by one cell in one direction, each
\* into the grid and into a cell that was free or is left by an object of M.
InitPush ==
    /\ game = [types |-> {0}, maxCells |-> PushWidth * PushHeight]
    /\ \E old \in SUBSET (0..(PushWidth * PushHeight - 1)) :
       \E d \in {<<1, 0>>, <<0 - 1, 0>>, <<0, 1>>, <<0, 0 - 1>>} :
       \E M \in SUBSET old :
          /\ M # {}
          /\ \A p \in M :
                /\ PushedTo(p, d, PushWidth, PushHeight) # 0 - 1
                /\ PushedTo(p, d, PushWidth, PushHeight) \in (M \cup ((0..(PushWidth * PushHeight - 1)) \ old))
          /\ previousLevelState =
                [LevelWith(old, PushWidth, PushHeight) EXCEPT !.buffer = "own"]
          /\ curLevel =
                LevelWith((old \ M) \cup {PushedTo(p, d, PushWidth, PushHeight) : p \in M},
                          PushWidth, PushHeight)
    /\ pc = "idle"
    /\ caller = "none"
    /\ NoLocals
    /\ sprites = <<>>
    /\ animatedMeshes = <<>>
    /\ NoAnimation

\* redraw3D runs on the pushed level, and again without a snapshot.
NextPush ==
    \/ redraw3D
    \/ NextType
    \/ Phase1Step
    \/ Phase2While
    \/ Phase2Step
    \/ Extract
    \/ redraw3DDraw
    \/ redraw3DFinish
    \/ animate3D

SpecPush == InitPush /\ [][NextPush]_vars

\* ------------------------------------------- replay of arbitrary changes
\* The snapshot was taken of a level of up to MatchCells cells with objects of
\* type 0 in the cells old, and then the engine changed the level so that
\* the cells new hold the objects.
InitMatch ==
    /\ game = [types |-> {0}, maxCells |-> MatchCells]
    /\ \E d \in Dims(game) :
       \E old \in SUBSET (0..(d[1] * d[2] - 1)), new \in SUBSET (0..(d[1] * d[2] - 1)) :
          /\ previousLevelState = [LevelWith(old, d[1], d[2]) EXCEPT !.buffer = "own"]
          /\ curLevel = LevelWith(new, d[1], d[2])
    /\ pc = "idle"
    /\ caller = "none"
    /\ NoLocals
    /\ sprites = <<>>
    /\ animatedMeshes = <<>>
    /\ NoAnimation

\* redraw3D runs on the changed level, and again without a snapshot.
NextMatch ==
    \/ redraw3D
    \/ NextType
    \/ Phase1Step
    \/ Phase2While
    \/ Phase2Step
    \/ Extract
    \/ redraw3DDraw
    \/ redraw3DFinish
    \/ animate3D

SpecMatch == InitMatch /\ [][NextMatch]_vars


\* ------------------------------- replay of arbitrary changes, single level
\* As InitMatch, on the one level of w x h cells.
InitOn(w, h) ==
    /\ game = [types |-> {0}, maxCells |-> w * h]
    /\ \E old \in SUBSET (0..(w * h - 1)), new \in SUBSET (0..(w * h - 1)) :
          /\ previousLevelState = [LevelWith(old, w, h) EXCEPT !.buffer = "own"]
          /\ curLevel = LevelWith(new, w, h)
    /\ pc = "idle"
    /\ caller = "none"
    /\ NoLocals
    /\ sprites = <<>>
    /\ animatedMeshes = <<>>
    /\ NoAnimation

InitLock == InitOn(LockWidth, LockHeight)

NextLock ==
    \/ redraw3D
    \/ NextType
    \/ Phase1Step
    \/ Phase2While
    \/ Phase2Step
    \/ Extract
    \/ redraw3DDraw
    \/ redraw3DFinish
    \/ animate3D

SpecLock == InitLock /\ [][NextLock]_vars

\* ----------------------------------- detectMovements followed to its return
InitFair == InitOn(FairWidth, FairHeight)

NextFair ==
    \/ redraw3D
    \/ NextType
    \/ Phase1Step
    \/ Phase2While
    \/ Phase2Step
    \/ Extract
    \/ redraw3DDraw
    \/ redraw3DFinish
    \/ animate3D

\* The steps of detectMovements after its entry.
DetectStep == NextType \/ Phase1Step \/ Phase2While \/ Phase2Step \/ Extract

\* detectMovements is one synchronous call: once entered, it takes its next
\* step until it returns.
SpecFair == InitFair /\ [][NextFair]_vars /\ WF_vars(DetectStep)

\* ================================================================ properties
\* What the two snapshots hold, read off the occupancy words directly.

\* Object type t is in cell pos of the level: bit t mod 32 of the cell's word
\* t div 32, the word read as an unsigned 32-bit number (a negative word is
\* the number 2^32 + word, whose bit 31 is set).
CellHolds(level, pos, t) ==
    LET w == level.objects[pos * STRIDE_OBJ + (t \div 32) + 1]
        b == t % 32
    IN  IF b = 31 THEN w < 0
        ELSE ((IF w < 0 THEN (w + 1073741824) + 1073741824 ELSE w) \div (2 ^ b)) % 2 = 1

CellsOf(level, t) ==
    {pos \in 0..(level.width * level.height - 1) : CellHolds(level, pos, t)}

OldCells(t) == CellsOf(previousLevelState, t)

NewCells(t) == CellsOf(curLevel, t)

\* detectMovements has run on two snapshots and returned its list.
Compared == pc = "returned" /\ previousLevelState # Null /\ curLevel # Null

SameDims ==
    /\ previousLevelState.width = curLevel.width
    /\ previousLevelState.height = curLevel.height

RecordsOf(t) == {i \in 1..Len(movements) : movements[i].objectIndex = t}

\* The object types that have a record in the list.
RecordTypes == {movements[i].objectIndex : i \in 1..Len(movements)}

\* The object types that are in some cell of the level (looked for only in
\* the words that are not zero everywhere).
TypesIn(level) ==
    LET cells == 0..(level.width * level.height - 1)
        words == {s \in 0..(STRIDE_OBJ - 1) :
                     \E pos \in cells : level.objects[pos * STRIDE_OBJ + s + 1] # 0}
    IN  {t \in {32 * s + b : s \in words, b \in 0..31} :
            \E pos \in cells : CellHolds(level, pos, t)}

Min2(a, b) == IF a < b THEN a ELSE b

\* C1 (Conservation): when detectMovements has returned, every object type has
\* at most min(|old positions|, |new positions|) records in the list (stated
\* for two snapshots of equal dimensions, where it already fails; a type
\* without a record satisfies it trivially).
C1_Conservation ==
    Compared /\ SameDims =>
        \A t \in RecordTypes :
            Cardinality(RecordsOf(t))
                <= Min2(Cardinality(OldCells(t)), Cardinality(NewCells(t)))

\* C2 (No-op): identical snapshots give an empty list, and an object type whose
\* old and new position sets are equal gets no record (every type that has a
\* record has different old and new position sets).
C2_NoOp ==
    Compared =>
        /\ (SameDims /\ previousLevelState.objects = curLevel.objects
                => movements = <<>>)
        /\ \A t \in RecordTypes : OldCells(t) # NewCells(t)

\* Identical snapshots with at least three objects, which the matcher paired.
C2_Witness ==
    /\ Compared
    /\ SameDims
    /\ previousLevelState.objects = curLevel.objects
    /\ Len(matchOld) >= 3
    /\ movements = <<>>

\* The cell of a position index in a snapshot of the given height.
CellOf(pos, height) == [x |-> pos \div height, y |-> pos % height]

Abs(n) == IF n < 0 THEN 0 - n ELSE n

\* The graph of the claim: the identical position, or 4-adjacent cells.
Joined(oldPos, newPos) ==
    LET o == CellOf(oldPos, previousLevelState.height)
        n == CellOf(newPos, curLevel.height)
    IN  oldPos = newPos \/ Abs(o.x - n.x) + Abs(o.y - n.y) = 1

Max(S) == CHOOSE m \in S : \A n \in S : n <= m

RECURSIVE BestMatching(_, _, _)
\* Exhaustive search: the largest number of old positions olds[i..] that can be
\* joined one-to-one to positions of freeNew.
BestMatching(olds, i, freeNew) ==
    IF i > Len(olds) THEN 0
    ELSE Max({BestMatching(olds, i + 1, freeNew)}
             \cup {1 + BestMatching(olds, i + 1, freeNew \ {n}) :
                      n \in {m \in freeNew : Joined(olds[i], m)}})

MatchedPairs == Cardinality({j \in 1..Len(matchNew) : matchNew[j] # 0 - 1})

\* C3 (Matching max-cardinality): the matching the matcher ends with has as many
\* pairs as a maximum matching of the graph on all old and all new positions
\* (stated for two snapshots of equal dimensions, where it already fails).
C3_MaxCardinality ==
    pc = "extract" /\ SameDims =>
        MatchedPairs = BestMatching(oldPositions, 1, Range(newPositions))

\* The position index of cell (x, y), and whether the cell is in the grid.
PosAt(x, y) == y + x * curLevel.height

InGrid(x, y) == x >= 0 /\ x < curLevel.width /\ y >= 0 /\ y < curLevel.height

Directions == {<<1, 0>>, <<0 - 1, 0>>, <<0, 1>>, <<0, 0 - 1>>}

\* The k cells of the line that starts at (x, y) and runs in direction d.
LineFrom(x, y, d, k) == {PosAt(x + i * d[1], y + i * d[2]) : i \in 0..(k - 1)}

\* Object type t was line-pushed: the k objects of the line from (x, y) moved
\* one cell in direction d into a free cell, all other objects stayed.
LinePushed(t, x, y, d, k) ==
    /\ InGrid(x, y)
    /\ InGrid(x + k * d[1], y + k * d[2])
    /\ LineFrom(x, y, d, k) \subseteq OldCells(t)
    /\ PosAt(x + k * d[1], y + k * d[2]) \notin OldCells(t)
    /\ NewCells(t) = (OldCells(t) \ LineFrom(x, y, d, k))
                        \cup LineFrom(x + d[1], y + d[2], d, k)

\* C4 (Line push): a line of k objects shifted by one cell along its axis gets
\* exactly k records, object by object to the next cell, and nothing else.
C4_LinePush ==
    Compared /\ SameDims =>
        \A t \in TypesIn(previousLevelState) :
        \A x \in 0..(curLevel.width - 1), y \in 0..(curLevel.height - 1) :
        \A d \in Directions, k \in 1..Cardinality(OldCells(t)) :
            LinePushed(t, x, y, d, k) =>
                /\ Cardinality(RecordsOf(t)) = k
                /\ {movements[i] : i \in RecordsOf(t)}
                     = {Movement(t, PosAt(x + i * d[1], y + i * d[2]),
                                 PosAt(x + (i + 1) * d[1], y + (i + 1) * d[2])) :
                            i \in 0..(k - 1)}

\* A line of two objects was pushed along a row while a third object stayed.
C4_Witness ==
    /\ Compared
    /\ SameDims
    /\ \E x \in 0..(curLevel.width - 1), y \in 0..(curLevel.height - 1) :
          /\ LinePushed(0, x, y, <<1, 0>>, 2)
          /\ Cardinality(OldCells(0)) = 3
    /\ Len(movements) = 2

\* C5 (Deletion handling): an object type that only loses objects gets no
\* record (no type that has a record only lost objects).
C5_Deletion ==
    Compared =>
        \A t \in RecordTypes :
            ~(/\ NewCells(t) \subseteq OldCells(t)
              /\ Cardinality(OldCells(t)) > Cardinality(NewCells(t)))

\* An object next to one that stayed was deleted and pre-excluded.
C5_Witness ==
    /\ Compared
    /\ SameDims
    /\ NewCells(0) # {}
    /\ NewCells(0) \subseteq OldCells(0)
    /\ \E p \in OldCells(0) \ NewCells(0), q \in NewCells(0) : Joined(p, q)
    /\ \E i \in 1..Len(excluded) : excluded[i]
    /\ movements = <<>>

\* C6 (Spawn/despawn isolation): an object type with positions only in the new
\* snapshot, or only in the old one, gets no record (every type that has a
\* record has an old and a new position).
C6_SpawnDespawn ==
    Compared =>
        \A t \in RecordTypes : OldCells(t) # {} /\ NewCells(t) # {}

\* Type 31 spawned while type 32 moved and got a record.
C6_Witness ==
    /\ Compared
    /\ OldCells(31) = {}
    /\ NewCells(31) # {}
    /\ RecordsOf(32) # {}
    /\ RecordsOf(31) = {}

\* C7 (No snapshot, no level): without a previous snapshot or without a current
\* level detectMovements returns at once with an empty list and throws nothing.
C7_NoSnapshot ==
    /\ pc # "threw"
    /\ (pc \in {"types", "phase1", "phase2", "body", "extract"}
            => previousLevelState # Null /\ curLevel # Null)
    /\ (pc = "returned" /\ (previousLevelState = Null \/ curLevel = Null)
            => movements = <<>>)

\* redraw3D got the list of a call made without a snapshot.
C7_Witness ==
    /\ pc = "returned"
    /\ caller = "redraw3D"
    /\ previousLevelState = Null
    /\ curLevel # Null
    /\ TypesIn(curLevel) # {}
    /\ movements = <<>>

\* C8 (from differs from to): no record of the list, while it is built or when
\* it is returned, has equal fromPosIndex and toPosIndex.
C8_FromDiffersTo ==
    \A i \in 1..Len(movements) : movements[i].fromPosIndex # movements[i].toPosIndex

\* The matcher returned a matching with a stay pair and a moved pair.
C8_Witness ==
    /\ Compared
    /\ Len(matchOld) >= 2
    /\ countStayEdges(adjStay, matchOld) >= 1
    /\ \E j \in 1..Len(matchNew) :
          /\ matchNew[j] # 0 - 1
          /\ At(oldPositions, matchNew[j]) # newPositions[j]
    /\ Len(movements) >= 1

\* C9 (One-to-one): no two records of one object type share a toPosIndex or a
\* fromPosIndex (stated for two snapshots of equal dimensions, where it already
\* fails).
C9_OneToOne ==
    Compared /\ SameDims =>
        \A i, j \in 1..Len(movements) :
            i # j /\ movements[i].objectIndex = movements[j].objectIndex
                => /\ movements[i].toPosIndex # movements[j].toPosIndex
                   /\ movements[i].fromPosIndex # movements[j].fromPosIndex

\* map is the position map of level: an ascending, duplicate-free list of
\* exactly the cells that hold the type, and no entry for an absent type.
IsPositionMap(map, level) ==
    /\ DOMAIN map = TypesIn(level)
    /\ \A t \in DOMAIN map : map[t] = SeqOfSet(CellsOf(level, t))

\* C10 (buildObjectPositionMap): both maps detectMovements builds list, for every
\* object type 32*s + bit, exactly the cells whose word s has the bit set, in
\* ascending order, and have no entry for a type set in no cell.
C10_PositionMap ==
    pc = "types" =>
        /\ IsPositionMap(oldMap, previousLevelState)
        /\ IsPositionMap(newMap, curLevel)

\* Bit 31 of word 0 is set in two cells and bit 0 of word 1 in one.
C10_Witness ==
    /\ pc = "types"
    /\ 31 \in DOMAIN newMap
    /\ 32 \in DOMAIN newMap
    /\ newMap[31] = <<0, 1>>
    /\ Len(newMap[32]) = 1
    /\ oldMap = <<>>

\* Decoding the index of cell (x, y) gives (x, y) back, encoding the decoded
\* coordinates of a position index gives the index back, and distinct cells
\* have distinct indices (the width * height cells have as many indices), in
\* a grid of the given width and height.
RoundTrip(width, height) ==
    LET xs == 0..(width - 1)
        ys == 0..(height - 1)
    IN  /\ \A x \in xs, y \in ys :
              /\ XOf(PosIndex(x, y, height), height) = x
              /\ YOf(PosIndex(x, y, height), height) = y
              /\ PosIndex(x, y, height) \in 0..(width * height - 1)
        /\ \A pos \in 0..(width * height - 1) :
              /\ XOf(pos, height) \in xs
              /\ YOf(pos, height) \in ys
              /\ PosIndex(XOf(pos, height), YOf(pos, height), height) = pos
        /\ Cardinality({PosIndex(x, y, height) : x \in xs, y \in ys})
              = width * height

\* The grids a level of the bounded games can have.
Grids == {d \in (1..MaxCells) \X (1..MaxCells) : d[1] * d[2] <= MaxCells}

\* The round trip holds in every one of these grids.
RoundTripInGrids == \A d \in Grids : RoundTrip(d[1], d[2])

\* C11 (Position index round trip): the grid of the current level and the
\* grid of the snapshot are grids in which pos = y + x*height and
\* x = floor(pos/height), y = pos mod height are inverse to each other, and
\* distinct cells have distinct position indices.
C11_RoundTrip ==
    /\ RoundTripInGrids
    /\ (curLevel # Null => <<curLevel.width, curLevel.height>> \in Grids)
    /\ (previousLevelState # Null
            => <<previousLevelState.width, previousLevelState.height>> \in Grids)

\* The push walk decoded two positions of a 2 x 2 level and encoded a step
\* from the first column to the second.
C11_Witness ==
    /\ Compared
    /\ SameDims
    /\ curLevel.width = 2
    /\ curLevel.height = 2
    /\ \E i \in 1..Len(movements) :
          /\ XOf(movements[i].fromPosIndex, curLevel.height) = 0
          /\ XOf(movements[i].toPosIndex, curLevel.height) = 1
          /\ YOf(movements[i].fromPosIndex, curLevel.height) = 1
          /\ YOf(movements[i].toPosIndex, curLevel.height) = 1

\* Where control is while detectMovements runs and when it has returned.
DetectPcs == {"types", "phase1", "phase2", "body", "extract", "returned", "threw"}

\* C12 (detectMovements changes neither snapshot): every step of
\* detectMovements, from its entry to its return, on the push path and on the
\* matching path, leaves previousLevelState and the current level (objects,
\* width, height) as they were.
C12_SnapshotsUnchanged ==
    [][pc' \in DetectPcs
          => curLevel' = curLevel /\ previousLevelState' = previousLevelState]_vars

\* detectMovements returned after the push heuristic handled type 31 and the
\* matcher type 32, on two snapshots that differ.
C12_Witness ==
    /\ Compared
    /\ previousLevelState.objects # curLevel.objects
    /\ RecordsOf(31) # {}
    /\ objectIndex = 32
    /\ Len(matchOld) >= 1

\* C13 (snapshotLevelState stores a copy): a step that changes the live level
\* leaves the stored snapshot as it was, and the snapshot changes only when
\* snapshotLevelState stores the live occupancy words, width and height anew
\* or when redraw3D discards it.
C13_SnapshotIsCopy ==
    [][/\ (curLevel' # curLevel => previousLevelState' = previousLevelState)
       /\ (previousLevelState' # previousLevelState =>
              \/ /\ pc = "idle" /\ pc' = "idle"
                 /\ curLevel # Null /\ curLevel' = curLevel
                 /\ previousLevelState' # Null
                 /\ previousLevelState'.objects = curLevel.objects
                 /\ previousLevelState'.width = curLevel.width
                 /\ previousLevelState'.height = curLevel.height
              \/ /\ pc = "drawn" /\ caller = "redraw3D"
                 /\ previousLevelState' = Null)]_vars

\* After the snapshot was taken the engine moved an object: the live level
\* and the snapshot differ in two cells.
C13_Witness ==
    /\ pc = "idle"
    /\ previousLevelState # Null
    /\ curLevel # Null
    /\ SameDims
    /\ Cardinality(OldCells(0)) = 2
    /\ Cardinality(NewCells(0)) = 2
    /\ Cardinality(OldCells(0) \cap NewCells(0)) = 1

\* C14 (the snapshot is discarded): a redraw3D call that reached
\* detectMovements sets previousLevelState to null when it returns; a snapshot
\* comes into being only by snapshotLevelState; and a redraw3D that finds no
\* snapshot (as every one after a full redraw3D does until snapshotLevelState
\* is called again) gets an empty list and tracks no instance for animation.
C14_SnapshotDiscarded ==
    /\ [][/\ (pc = "drawn" /\ pc' # "drawn" => previousLevelState' = Null)
          /\ (previousLevelState = Null /\ previousLevelState' # Null
                 => /\ pc = "idle" /\ pc' = "idle"
                    /\ curLevel # Null
                    /\ previousLevelState'.objects = curLevel.objects)]_vars
    /\ [](pc \in {"returned", "drawn"} /\ caller = "redraw3D"
             /\ previousLevelState = Null
          => movements = <<>> /\ animatedMeshes = <<>>)
    /\ [](pc = "animating" => previousLevelState = Null /\ animatedMeshes # <<>>)

\* A redraw3D without a snapshot has drawn a level with two objects: nothing
\* is tracked for animation.
C14_Witness ==
    /\ pc = "drawn"
    /\ previousLevelState = Null
    /\ Len(sprites) = 2
    /\ movements = <<>>
    /\ animatedMeshes = <<>>

\* The records of the list for the instance sp: its object, and its cell as
\* toPosIndex.
RecordsFor(sp) ==
    {i \in 1..Len(movements) :
        /\ movements[i].toPosIndex = PosAt(sp.endX, sp.endZ)
        /\ movements[i].objectIndex = sp.spriteIndex}

Unit(d) == <<IF d[1] > 0 THEN 1 ELSE IF d[1] < 0 THEN 0 - 1 ELSE 0,
             IF d[2] > 0 THEN 1 ELSE IF d[2] < 0 THEN 0 - 1 ELSE 0>>

\* The i-th disappeared and the i-th appeared cell of type t, both lists in
\* ascending position-index order, and the delta between them in the grid of
\* the current level.
DeltaOf(t, i) ==
    LET from == CellOf(SeqOfSet(OldCells(t) \ NewCells(t))[i], curLevel.height)
        to == CellOf(SeqOfSet(NewCells(t) \ OldCells(t))[i], curLevel.height)
    IN  <<to.x - from.x, to.y - from.y>>

\* The condition of the claim for the PushDetector.
PushCondition(t) ==
    LET nDis == Cardinality(OldCells(t) \ NewCells(t))
        nApp == Cardinality(NewCells(t) \ OldCells(t))
    IN  /\ nDis > 0
        /\ nApp > 0
        /\ nDis = nApp
        /\ \A i \in 1..nDis :
              /\ DeltaOf(t, i) # <<0, 0>>
              /\ DeltaOf(t, i)[1] = 0 \/ DeltaOf(t, i)[2] = 0
              /\ Unit(DeltaOf(t, i)) = Unit(DeltaOf(t, 1))

\* C16 (one component per type): for the object type the loop turns to, if it
\* has an old position, the push heuristic appends its records and the matcher
\* is skipped exactly when the condition holds (cells taken in the grid of the
\* current level); otherwise the matcher is started and the list grows only
\* at its extraction.  Nothing else appends to the list.
C16_OneComponent ==
    [][/\ (pc = "types" /\ OldCells(Head(typeQueue)) # {} =>
              /\ PushCondition(Head(typeQueue)) <=> pc' # "phase1"
              /\ pc' = "phase1" =>
                    /\ movements' = movements
                    /\ Len(matchOld') = Cardinality(OldCells(Head(typeQueue)))
              /\ pc' # "phase1" =>
                    /\ typeQueue' = Tail(typeQueue)
                    /\ matchOld' = <<>>
                    /\ Len(movements') >= Len(movements))
       /\ (pc = "types" /\ OldCells(Head(typeQueue)) = {} => movements' = movements)
       /\ (Len(movements') > Len(movements) =>
              \/ pc = "types" /\ PushCondition(Head(typeQueue))
              \/ pc = "extract")]_vars

\* The matcher was started for a type with two disappeared and two appeared
\* positions, which the push heuristic turned down.
C16_Witness ==
    /\ pc = "phase1"
    /\ idx = 0
    /\ Len(Disappeared(oldPositions, newPositions)) = 2
    /\ Len(Appeared(oldPositions, newPositions)) = 2

\* The position index of the cell next to pos in direction d.
Shifted(pos, d) ==
    PosAt(CellOf(pos, curLevel.height).x + d[1], CellOf(pos, curLevel.height).y + d[2])

\* The objects M of type t were moved one cell in direction d, each into the
\* grid and into a cell that was free of the type or is left by another
\* object of M, and all other objects of the type kept their cells.
RigidPush(t, M, d) ==
    /\ M # {}
    /\ \A p \in M :
          /\ InGrid(CellOf(p, curLevel.height).x + d[1],
                    CellOf(p, curLevel.height).y + d[2])
          /\ Shifted(p, d) \notin OldCells(t) \/ Shifted(p, d) \in M
    /\ NewCells(t) = (OldCells(t) \ M) \cup {Shifted(p, d) : p \in M}

\* C17 (rigid push exactness): for snapshots of equal size, after a rigid
\* push of the set M of objects of a type by one cell in direction d, the
\* records of the type are exactly the records p -> p+d for p in M.
C17_RigidPush ==
    Compared /\ SameDims =>
        \A t \in TypesIn(previousLevelState) :
        \A d \in Directions, M \in SUBSET OldCells(t) :
            RigidPush(t, M, d) =>
                {movements[i] : i \in RecordsOf(t)}
                    = {Movement(t, p, Shifted(p, d)) : p \in M}

\* A chain of two objects in the first row and a single object in the second
\* row were pushed right by one cell, next to an object that stayed.
C17_Witness ==
    /\ Compared
    /\ SameDims
    /\ curLevel.width = 3
    /\ curLevel.height = 3
    /\ OldCells(0) = {0, 3, 4, 2}
    /\ RigidPush(0, {0, 3, 4}, <<1, 0>>)
    /\ Len(movements) = 3

\* C18 (records join 4-neighbours): for snapshots of equal width and height,
\* every record of the returned list goes from an old position of its object
\* type to a new position of that type, and the two cells are inside the grid
\* at Manhattan distance exactly 1 (so never two cells that are only
\* consecutive position indices across a column boundary).
C18_FourNeighbours ==
    Compared /\ SameDims =>
        \A i \in 1..Len(movements) :
            LET m == movements[i]
                from == CellOf(m.fromPosIndex, previousLevelState.height)
                to == CellOf(m.toPosIndex, curLevel.height)
            IN  /\ m.fromPosIndex \in OldCells(m.objectIndex)
                /\ m.toPosIndex \in NewCells(m.objectIndex)
                /\ InGrid(from.x, from.y)
                /\ InGrid(to.x, to.y)
                /\ Abs(from.x - to.x) + Abs(from.y - to.y) = 1

\* On a 2 x 2 level the objects of cells 0 and 1 became the objects of cells
\* 1 and 2: the record joins cell 0 = (0,0) to cell 2 = (1,0), not cell
\* 1 = (0,1) to the next position index 2.
C18_Witness ==
    /\ Compared
    /\ SameDims
    /\ curLevel.width = 2
    /\ curLevel.height = 2
    /\ OldCells(0) = {0, 1}
    /\ NewCells(0) = {1, 2}
    /\ movements = <<Movement(0, 0, 2)>>

\* The old-list indices (from 1) that are pre-excluded, and those whose
\* position is not among the new positions (no stay edge).
ExcludedIdx == {i \in 1..Len(excluded) : excluded[i]}

NoStayIdx == {i \in 1..Len(oldPositions) : oldPositions[i] \notin Range(newPositions)}

\* C19 (deletion pre-exclusion): while the matcher works on a type and after
\* it, with more old than new positions exactly min(|old| - |new|, number of
\* old positions without a stay edge) old positions are excluded, namely the
\* first ones without a stay edge in old-list order, and with |old| <= |new|
\* none; an excluded old position is matched neither in matchOld nor in
\* matchNew and is not the fromPosIndex of a record of the type.
C19_PreExclusion ==
    pc \in {"phase1", "phase2", "body", "extract", "returned", "types"}
    /\ Len(excluded) > 0 =>
        /\ Len(excluded) = Len(oldPositions)
        /\ ExcludedIdx \subseteq NoStayIdx
        /\ Cardinality(ExcludedIdx)
             = IF Len(oldPositions) > Len(newPositions)
               THEN Min2(Len(oldPositions) - Len(newPositions), Cardinality(NoStayIdx))
               ELSE 0
        /\ \A i \in ExcludedIdx, k \in NoStayIdx : k < i => k \in ExcludedIdx
        /\ \A i \in ExcludedIdx :
              /\ matchOld[i] = 0 - 1
              /\ \A j \in 1..Len(matchNew) : matchNew[j] # i - 1
              /\ \A n \in RecordsOf(objectIndex) :
                    movements[n].fromPosIndex # oldPositions[i]

\* Of the old cells 0 and 2 without a stay edge the first was excluded and
\* the second was matched to the new cell 3.
C19_Witness ==
    /\ Compared
    /\ oldPositions = <<0, 2>>
    /\ newPositions = <<3>>
    /\ excluded = <<TRUE, FALSE>>
    /\ matchOld = <<0 - 1, 0>>
    /\ movements = <<Movement(0, 2, 3)>>

\* The old positions that are not pre-excluded, in old-list order.
NotExcluded ==
    SelectSeq(oldPositions, LAMBDA p : ~excluded[PosToIdx(oldPositions, p) + 1])

\* C20 (maximum cardinality on the restricted graph): after Phase 1, after
\* every iteration and scan of the refinement and at extraction, the matching
\* has as many pairs as a maximum matching of the graph that joins the old
\* positions that are not pre-excluded to the new positions by stay and
\* 4-adjacency edges.
C20_MaxOnRestricted ==
    pc \in {"phase2", "body", "extract"} =>
        MatchedPairs = BestMatching(NotExcluded, 1, Range(newPositions))

\* The matcher reached extraction with two pairs, one old position excluded,
\* and fewer pairs than a maximum matching on all old positions has.
C20_Witness ==
    /\ pc = "extract"
    /\ SameDims
    /\ ExcludedIdx # {}
    /\ MatchedPairs = 2
    /\ BestMatching(oldPositions, 1, Range(newPositions)) = 3

\* The control states in which the matching of the current object type exists.
MatcherPcs == {"phase1", "phase2", "body", "extract"}

\* The refinement step about to run for old node l = idx will try a swap: l
\* has a stay edge it does not use, and r_stay is held by another old node.
SwapCase ==
    /\ pc = "body"
    /\ Len(At(adjStay, idx)) > 0
    /\ At(matchOld, idx) # At(adjStay, idx)[1]
    /\ At(matchNew, At(adjStay, idx)[1]) # 0 - 1

\* ... or will take r_stay, which is free.
FreeCase ==
    /\ pc = "body"
    /\ Len(At(adjStay, idx)) > 0
    /\ At(matchOld, idx) # At(adjStay, idx)[1]
    /\ At(matchNew, At(adjStay, idx)[1]) = 0 - 1

\* C21 (matching arrays consistent): after every top-level tryAugment call of
\* Phase 1, after every iteration of the refinement loop and at extraction,
\* matchOld[i] = j exactly when matchNew[j] = i, the entries are -1 or indices
\* of the other list, and every matched pair is an edge of the graph: j is in
\* adj[i], and the two positions are identical or 4-adjacent cells.
C21_MatchConsistent ==
    pc \in MatcherPcs =>
        /\ Len(matchOld) = Len(oldPositions)
        /\ Len(matchNew) = Len(newPositions)
        /\ \A i \in 1..Len(matchOld) :
              /\ matchOld[i] \in (0 - 1)..(Len(matchNew) - 1)
              /\ matchOld[i] # 0 - 1 =>
                    /\ At(matchNew, matchOld[i]) = i - 1
                    /\ matchOld[i] \in Range(adj[i])
                    /\ Joined(oldPositions[i], At(newPositions, matchOld[i]))
        /\ \A j \in 1..Len(matchNew) :
              /\ matchNew[j] \in (0 - 1)..(Len(matchOld) - 1)
              /\ matchNew[j] # 0 - 1 => At(matchOld, matchNew[j]) = j - 1

\* In the middle of a refinement scan that has locked a stay edge, the
\* matching has a pair of different positions and a new position without a
\* partner.
C21_Witness ==
    /\ pc = "body"
    /\ idx > 0
    /\ improved
    /\ lockedStayEdges # {}
    /\ \E i \in 1..Len(matchOld) :
          /\ matchOld[i] # 0 - 1
          /\ At(oldPositions, i - 1) # At(newPositions, matchOld[i])
    /\ \E j \in 1..Len(matchNew) : matchNew[j] = 0 - 1

\* The number of stay pairs of the matching: old nodes matched to the new
\* node of the identical position.
StayPairs ==
    Cardinality({i \in 1..Len(matchOld) :
                    /\ matchOld[i] # 0 - 1
                    /\ oldPositions[i] = At(newPositions, matchOld[i])})

\* C22 (refinement is monotone): across every iteration of the refinement
\* loop body the number of matched pairs does not decrease and the number of
\* stay pairs does not decrease, and an iteration that sets improved to true
\* (it locks a stay edge, or improved turns from false to true) strictly
\* increases the number of stay pairs.
C22_Monotone ==
    [][pc = "body" =>
          /\ MatchedPairs' >= MatchedPairs
          /\ StayPairs' >= StayPairs
          /\ (lockedStayEdges' # lockedStayEdges \/ (~improved /\ improved')
                 => StayPairs' > StayPairs)
          /\ (StayPairs' > StayPairs => improved')]_vars

\* The first swap of a refinement pass was kept: one stay edge is locked,
\* improved is set, and the displaced old node has a partner at another
\* position.
C22_Witness ==
    /\ pc = "body"
    /\ improved
    /\ Cardinality(lockedStayEdges) = 1
    /\ StayPairs >= 1
    /\ MatchedPairs > StayPairs
    /\ \A j \in 1..Len(matchNew) : matchNew[j] # 0 - 1

\* The tentative swap for old node l (lines 1062-1077) on the current arrays:
\* l claims r_stay, l_prime loses it, and the search for a replacement runs
\* with the new nodes marked in visited closed.  ok tells whether a
\* replacement was found; matchOld and matchNew are the arrays after it.
TentativeSwapWith(l, visited) ==
    LET r_stay == At(adjStay, l)[1]
        l_prime == At(matchNew, r_stay)
        r_prime == At(matchOld, l)
        swappedNew == [FreeNew(matchNew, r_prime) EXCEPT ![r_stay + 1] = l]
        swappedOld == [matchOld EXCEPT ![l + 1] = r_stay, ![l_prime + 1] = 0 - 1]
    IN  tryAugment(adj, l_prime, swappedOld, swappedNew, visited)

\* The tentative swap as the refinement runs it: the locked stay edges and
\* r_stay are closed to the search.
TentativeSwap(l) ==
    TentativeSwapWith(l, VisitedLocked(Len(matchNew), lockedStayEdges,
                                       At(adjStay, l)[1]))

\* The number of stay pairs of a matchOld array.
StayPairsOf(mOld) ==
    Cardinality({i \in 1..Len(mOld) :
                    /\ mOld[i] # 0 - 1
                    /\ oldPositions[i] = At(newPositions, mOld[i])})

\* The entries in which two arrays of equal length differ.
Differing(a, b) == {i \in 1..Len(a) : a[i] # b[i]}

\* C23 (swap kept or reverted): a refinement iteration that tries a swap
\* keeps it (the arrays are those after the search) only if a replacement for
\* the displaced old node was found and the stay pairs after the swap are
\* strictly more than before; otherwise matchOld and matchNew are, entry by
\* entry, what they were before the iteration, and nothing is locked and
\* improved is not changed.  Whenever an iteration changes an array, the
\* displaced node has a partner afterwards and the stay pairs strictly grew.
C23_SwapKeptOrReverted ==
    [][SwapCase =>
          /\ IF TentativeSwap(idx).ok
                /\ StayPairsOf(TentativeSwap(idx).matchOld) > StayPairs
             THEN /\ matchOld' = TentativeSwap(idx).matchOld
                  /\ matchNew' = TentativeSwap(idx).matchNew
             ELSE /\ Differing(matchOld', matchOld) = {}
                  /\ Differing(matchNew', matchNew) = {}
                  /\ lockedStayEdges' = lockedStayEdges
                  /\ improved' = improved
          /\ (matchOld' # matchOld \/ matchNew' # matchNew
                => /\ At(matchOld', At(matchNew, At(adjStay, idx)[1])) # 0 - 1
                   /\ StayPairs' > StayPairs)]_vars

\* The iteration for old node idx - 1 has just reverted a swap whose search
\* had found a replacement without gaining a stay pair, after it had changed
\* the entry of a third old node as well: the arrays are as before, so the
\* swap could be tried again.
C23_Witness ==
    /\ pc = "body"
    /\ idx >= 1
    /\ Len(At(adjStay, idx - 1)) > 0
    /\ At(matchOld, idx - 1) # At(adjStay, idx - 1)[1]
    /\ At(matchNew, At(adjStay, idx - 1)[1]) # 0 - 1
    /\ TentativeSwap(idx - 1).ok
    /\ StayPairsOf(TentativeSwap(idx - 1).matchOld) <= StayPairs
    /\ Cardinality(Differing(TentativeSwap(idx - 1).matchOld, matchOld)) >= 3

\* The new node r is matched to the old node of the identical position.
StayMatched(r) ==
    \E i \in 1..Len(oldPositions) :
        /\ oldPositions[i] = At(newPositions, r)
        /\ adjStay[i] = <<r>>
        /\ matchOld[i] = r
        /\ At(matchNew, r) = i - 1

\* C24 (locked stay edges are permanent): from the iteration that locks the
\* stay edge of an old node on, in every state of the refinement, at
\* extraction and after it, the locked new node is matched to the old node of
\* the identical position; a lock is the stay edge of the iteration's old
\* node and is never taken back; and when the records of the type have been
\* extracted, none has the position of a locked edge as its from or its to.
C24_LockedPermanent ==
    /\ [](pc \in {"body", "phase2", "extract"} =>
             \A r \in lockedStayEdges : StayMatched(r))
    /\ [](pc \in {"types", "returned"} =>
             \A r \in lockedStayEdges, n \in RecordsOf(objectIndex) :
                 /\ movements[n].fromPosIndex # At(newPositions, r)
                 /\ movements[n].toPosIndex # At(newPositions, r))
    /\ [][(pc \in {"body", "phase2", "extract"}) =>
             /\ lockedStayEdges \subseteq lockedStayEdges'
             /\ (\A r \in lockedStayEdges' \ lockedStayEdges :
                    pc = "body" /\ At(adjStay, idx) = <<r>>)]_vars

\* The refinement is about to try a swap with a stay edge locked, and the
\* search for a replacement would end with the locked new node in other hands
\* if that node were not closed to it.
C24_Witness ==
    /\ SwapCase
    /\ \E r \in lockedStayEdges :
          /\ StayMatched(r)
          /\ At(TentativeSwap(idx).matchNew, r) = At(matchNew, r)
          /\ At(TentativeSwapWith(idx, [j \in 1..Len(matchNew) |->
                                           j - 1 = At(adjStay, idx)[1]]).matchNew, r)
                # At(matchNew, r)

\* The weight of a pair in the search for the best matching: cardinality
\* first, then stay pairs.
PairWeight == MatchCells * MatchCells + 1

RECURSIVE BestStayMatching(_, _, _)
\* Exhaustive search over the one-to-one joinings of the old positions
\* olds[i..] to positions of freeNew: the largest value of PairWeight * pairs
\* + stay pairs, which a maximum-cardinality matching with the most stay
\* pairs has.
BestStayMatching(olds, i, freeNew) ==
    IF i > Len(olds) THEN 0
    ELSE Max({BestStayMatching(olds, i + 1, freeNew)}
             \cup {PairWeight + (IF n = olds[i] THEN 1 ELSE 0)
                      + BestStayMatching(olds, i + 1, freeNew \ {n}) :
                      n \in {m \in freeNew : Joined(olds[i], m)}})

\* C25 as stated (stay preference): the matching the matcher ends with has,
\* among all maximum-cardinality matchings of the graph on the old positions
\* that are not pre-excluded, the largest number of stay pairs.
C25_StayOptimal ==
    pc = "extract" =>
        PairWeight * MatchedPairs + StayPairs
            = BestStayMatching(NotExcluded, 1, Range(newPositions))

\* The old nodes (JavaScript indices) that have a stay edge and are not
\* matched along it.
UnusedStay ==
    {l \in 0..(Len(oldPositions) - 1) :
        Len(At(adjStay, l)) > 0 /\ At(matchOld, l) # At(adjStay, l)[1]}

\* C25 (stay preference, local): the matching the matcher ends with is a
\* maximum-cardinality matching of the graph on the old positions that are
\* not pre-excluded which no refinement step improves: the stay edge of every
\* old node that is not matched along it is held by another old node, and
\* the swap for it finds no replacement for that node or does not gain a stay
\* pair.  It has at most, and not always, the largest number of stay pairs
\* of the maximum-cardinality matchings.
C25_LocalOptimum ==
    pc = "extract" =>
        /\ MatchedPairs = BestMatching(NotExcluded, 1, Range(newPositions))
        /\ PairWeight * MatchedPairs + StayPairs
              <= BestStayMatching(NotExcluded, 1, Range(newPositions))
        /\ \A l \in UnusedStay :
              /\ At(matchNew, At(adjStay, l)[1]) # 0 - 1
              /\ ~(/\ TentativeSwap(l).ok
                   /\ StayPairsOf(TentativeSwap(l).matchOld) > StayPairs)

\* The refinement has ended with an old node that is not matched along its
\* stay edge, although the swap for it finds a replacement, and with fewer
\* stay pairs than another maximum-cardinality matching has.
C25_Witness ==
    /\ pc = "extract"
    /\ \E l \in UnusedStay : TentativeSwap(l).ok
    /\ PairWeight * MatchedPairs + StayPairs
          < BestStayMatching(NotExcluded, 1, Range(newPositions))

RECURSIVE SumOver(_, _)
\* f[1] + ... + f[n]
SumOver(f, n) == IF n = 0 THEN 0 ELSE f[n] + SumOver(f, n - 1)

\* For the object type the loop is about to turn to, the sorted disappeared
\* and appeared positions, the unit direction of the first pair, and the
\* number of unit steps that lead from the i-th disappeared cell to the i-th
\* appeared cell (cells taken in the grid of the current level).
NextDisappeared ==
    SortAsc(Disappeared(MapGet(oldMap, Head(typeQueue)), newMap[Head(typeQueue)]))

NextAppeared ==
    SortAsc(Appeared(MapGet(oldMap, Head(typeQueue)), newMap[Head(typeQueue)]))

StepsOf(i) ==
    LET from == CellOf(NextDisappeared[i], curLevel.height)
        to == CellOf(NextAppeared[i], curLevel.height)
    IN  Abs(to.x - from.x) + Abs(to.y - from.y)

\* The i-th walk reaches its appeared cell: that cell is StepsOf(i) >= 1 unit
\* steps from the disappeared cell in the push direction.
WalkArrives(i) ==
    LET from == CellOf(NextDisappeared[i], curLevel.height)
        to == CellOf(NextAppeared[i], curLevel.height)
        first == <<CellOf(NextAppeared[1], curLevel.height).x
                      - CellOf(NextDisappeared[1], curLevel.height).x,
                   CellOf(NextAppeared[1], curLevel.height).y
                      - CellOf(NextDisappeared[1], curLevel.height).y>>
    IN  /\ StepsOf(i) >= 1
        /\ to.x = from.x + StepsOf(i) * Unit(first)[1]
        /\ to.y = from.y + StepsOf(i) * Unit(first)[2]

\* C26 (termination): a detectMovements call that has started on two
\* snapshots returns; where the push heuristic applies, every walk ends at
\* its appeared cell after its finitely many unit steps and emits at most one
\* record per step; the arrays of the matcher keep their lengths (a search
\* has at most one node per new position to visit); the refinement locks at
\* most one stay edge per new position, every scan starts with improved
\* false, and a scan that leaves improved false (as the last one does)
\* changes neither the matching nor the locks.
C26_Terminates ==
    /\ (pc \in {"types", "phase1", "phase2", "body", "extract"} ~> pc = "returned")
    /\ [](pc = "types" /\ MapGet(oldMap, Head(typeQueue)) # <<>>
             /\ PushApplies(MapGet(oldMap, Head(typeQueue)), newMap[Head(typeQueue)],
                            curLevel.height)
          => /\ \A i \in 1..Len(NextDisappeared) : WalkArrives(i)
             /\ Len(PushMovements(Head(typeQueue), MapGet(oldMap, Head(typeQueue)),
                                  newMap[Head(typeQueue)], curLevel.height))
                   <= SumOver([i \in 1..Len(NextDisappeared) |-> StepsOf(i)],
                              Len(NextDisappeared)))
    /\ [](pc \in {"phase2", "body", "extract"}
          => /\ lockedStayEdges \subseteq 0..(Len(newPositions) - 1)
             /\ idx <= Len(oldPositions))
    /\ [][(pc = "body" /\ ~improved')
             => /\ matchOld' = matchOld
                /\ matchNew' = matchNew
                /\ lockedStayEdges' = lockedStayEdges]_vars
    /\ [](pc = "body" /\ idx = 0 => ~improved)
    /\ [][(pc = "phase2" /\ pc' = "extract") => ~improved]_vars

\* The refinement needed three scans: two stay edges were locked in different
\* scans, and the scan that has just ended left improved false.
C26_Witness ==
    /\ pc = "phase2"
    /\ ~improved
    /\ Cardinality(lockedStayEdges) >= 2
    /\ \E l \in 0..(Len(oldPositions) - 1) :
          /\ Len(At(adjStay, l)) > 0
          /\ At(adjStay, l)[1] \in lockedStayEdges
          /\ \E l2 \in (l + 1)..(Len(oldPositions) - 1) :
                /\ Len(At(adjStay, l2)) > 0
                /\ At(adjStay, l2)[1] \in lockedStayEdges

\* The delta between the i-th disappeared and the i-th appeared cell of type
\* t (both lists in ascending position-index order), the old position taken
\* in the grid of the snapshot and the new position in the grid of the
\* current level.
DeltaOwn(t, i) ==
    LET from == CellOf(SeqOfSet(OldCells(t) \ NewCells(t))[i], previousLevelState.height)
        to == CellOf(SeqOfSet(NewCells(t) \ OldCells(t))[i], curLevel.height)
    IN  <<to.x - from.x, to.y - from.y>>

\* The condition of the push heuristic with every position taken in the grid
\* of its own snapshot.
PushConditionOwn(t) ==
    LET nDis == Cardinality(OldCells(t) \ NewCells(t))
        nApp == Cardinality(NewCells(t) \ OldCells(t))
    IN  /\ nDis > 0
        /\ nApp > 0
        /\ nDis = nApp
        /\ \A i \in 1..nDis :
              /\ DeltaOwn(t, i) # <<0, 0>>
              /\ DeltaOwn(t, i)[1] = 0 \/ DeltaOwn(t, i)[2] = 0
              /\ Unit(DeltaOwn(t, i)) = Unit(DeltaOwn(t, 1))

\* C27 (each snapshot's own dimensions): for snapshots of different heights,
\* the push heuristic takes an object type exactly if its condition holds
\* with the old positions taken in the grid of the snapshot and the new ones
\* in the grid of the current level, and the matcher joins an old node to
\* exactly the new nodes of the identical position index and of the cells
\* 4-adjacent to the old node's cell in the grid of the snapshot.
C27_OwnDimensions ==
    /\ [][(pc = "types" /\ previousLevelState.height # curLevel.height
              /\ OldCells(Head(typeQueue)) # {})
             => (pc' # "phase1" <=> PushConditionOwn(Head(typeQueue)))]_vars
    /\ [](pc \in MatcherPcs /\ previousLevelState.height # curLevel.height
             => \A i \in 1..Len(oldPositions) :
                   Range(adj[i]) = {j \in 0..(Len(newPositions) - 1) :
                                       Joined(oldPositions[i], At(newPositions, j))})

\* C28 (no read of a null snapshot): whatever the order of snapshotLevelState
\* and redraw3D calls, redraw3D never reads a field of a null snapshot (no
\* TypeError is thrown); the list detectMovements hands to redraw3D is empty
\* whenever the snapshot is null, and the matcher runs only with a snapshot.
C28_NoNullRead ==
    /\ pc # "threw"
    /\ (pc = "returned" /\ caller = "redraw3D" /\ previousLevelState = Null)
          => movements = <<>>
    /\ (pc \in {"types", "phase1", "phase2", "body", "extract"})
          => previousLevelState # Null

\* redraw3D has drawn the level while there was no snapshot.
C28_Witness ==
    /\ pc = "drawn"
    /\ caller = "redraw3D"
    /\ previousLevelState = Null
    /\ sprites # <<>>

\* ------------------------------------------ input during an animation
\* Largest number of cells of a level of the game in which the player moves
\* while an animation runs.
AnimCells == 3
\* Largest number of inputs handled while frames are pending.
MaxPending == 2

InitAnim ==
    /\ game = [types |-> {0}, maxCells |-> AnimCells]
    /\ curLevel = Null
    /\ previousLevelState = Null
    /\ pc = "idle"
    /\ caller = "none"
    /\ NoLocals
    /\ sprites = <<>>
    /\ animatedMeshes = <<>>
    /\ NoAnimation

\* The engine handles an input while frames of the animation are pending:
\* nothing in the renderer waits for the animation to end.
InputArrives ==
    /\ pc = "animating"
    /\ pendingFrames < MaxPending
    /\ pc' = "idle"
    /\ UNCHANGED <<levelVars, caller, detectVars, typeVars, drawVars>>

NextAnim ==
    \/ LoadLevel
    \/ SetCell
    \/ snapshotLevelState
    \/ redraw3D
    \/ NextType
    \/ Phase1Step
    \/ Phase2While
    \/ Phase2Step
    \/ Extract
    \/ redraw3DDraw
    \/ redraw3DFinish
    \/ animate3D
    \/ InputArrives

SpecAnim == InitAnim /\ [][NextAnim]_vars

\* C29 (one animation loop): at most one animate3D callback is pending in
\* requestAnimationFrame at any time, also when a redraw3D that starts a new
\* animation runs while the callback of the previous animation is pending.
C29_OneLoop == pendingFrames <= 1

\* C30 (early returns keep the snapshot): a redraw3D call that returns before
\* the correspondence is computed leaves previousLevelState (and the level) as
\* it was, up to and including its return, so that a snapshot taken before it
\* is still there for the next full redraw3D; and snapshotLevelState called
\* while there is no current level leaves the snapshot unchanged.
C30_EarlyKeepsSnapshot ==
    /\ [][(pc = "idle" /\ pc' = "early")
             => /\ previousLevelState' = previousLevelState
                /\ curLevel' = curLevel]_vars
    /\ [][(pc = "early")
             => /\ previousLevelState' = previousLevelState
                /\ curLevel' = curLevel
                /\ pc' = "idle"]_vars
    /\ [][(snapshotLevelState /\ curLevel = Null)
             => previousLevelState' = previousLevelState]_vars
    /\ [][(pc = "idle" /\ pc' = "idle" /\ curLevel = Null /\ curLevel' = Null)
             => previousLevelState' = previousLevelState]_vars

\* redraw3D has returned early, there being no current level, while a snapshot
\* with objects in it is pending.
C30_Witness ==
    /\ pc = "early"
    /\ curLevel = Null
    /\ previousLevelState # Null
    /\ previousLevelState.buffer = "own"
    /\ \E i \in 1..Len(previousLevelState.objects) : previousLevelState.objects[i] # 0

====
